---- MODULE Spec2Model ----
(***************************************************************************)
(* Model of interface_parser.py: slugify, DescriptionObject and            *)
(* InterfaceIssueParser (parse_markdown_sections, load, build_objects,     *)
(* get_by_section_presence, to_dataframe).                                 *)
(*                                                                         *)
(* A Python str is a sequence of one-character strings.  A Python value of *)
(* any other type is a tagged record (see None, Str, PyInt, NaN, Dict).   *)
(* A dict is a sequence of [k, v] entries in insertion order.              *)
(***************************************************************************)
EXTENDS Integers, Sequences, FiniteSets, TLC

VARIABLES
    \* The arguments and the return value of the last call; those of the
    \* operations that were not the last one called hold their defaults.
    heading,          \* heading text passed to slugify / get_by_section_presence
    md,               \* text passed to parse_markdown_sections
    include_sections, \* include_sections passed to to_dataframe
    key,              \* value returned by slugify
    sections,         \* dict returned by parse_markdown_sections
    result,           \* list returned by get_by_section_presence
    records,          \* row dicts built by to_dataframe
    \* The file and the parser object
    csv,              \* the file at csv_path: NoFile or [columns, rows]
    requested,        \* description_col as given to __init__
    description_col,  \* self.description_col
    df,               \* self.df: NoFile (None) or the table read
    objects,          \* self.objects
    call,             \* name of the last operation called
    err,              \* exception raised by the last operation, "" if it returned
    errmsg            \* values interpolated into the KeyError message of load

vars == <<heading, md, include_sections, key, sections, result, records, csv,
          requested, description_col, df, objects, call, err, errmsg>>

----------------------------------------------------------------------------
(* Bounds of the model *)

MaxHeadingLen == 4
MaxLines == 3
MaxRows == 2

----------------------------------------------------------------------------
(* Characters and Python values *)

BS == "\\"
NL == "\n"
Whitespace == {" ", "\t", "\n", "\r", "\f"}
LowerLetters == <<"a","b","c","d","e","f","g","h","i","j","k","l","m",
                  "n","o","p","q","r","s","t","u","v","w","x","y","z">>
UpperLetters == <<"A","B","C","D","E","F","G","H","I","J","K","L","M",
                  "N","O","P","Q","R","S","T","U","V","W","X","Y","Z">>
DigitChars == <<"0","1","2","3","4","5","6","7","8","9">>
LowerSet == {LowerLetters[i] : i \in 1..26}
DigitSet == {DigitChars[i] : i \in 1..10}

None == [t |-> "None", s |-> <<>>, n |-> 0, d |-> <<>>]
NaN == [t |-> "float", s |-> <<>>, n |-> 0, d |-> <<>>]
Str(s) == [t |-> "str", s |-> s, n |-> 0, d |-> <<>>]
PyInt(n) == [t |-> "int", s |-> <<>>, n |-> n, d |-> <<>>]
Dict(d) == [t |-> "dict", s |-> <<>>, n |-> 0, d |-> d]

----------------------------------------------------------------------------
(* str methods and re.sub patterns used by the module *)

RECURSIVE lstrip_chars(_, _)
lstrip_chars(s, cs) ==
    IF s # <<>> /\ Head(s) \in cs THEN lstrip_chars(Tail(s), cs) ELSE s

RECURSIVE rstrip_chars(_, _)
rstrip_chars(s, cs) ==
    IF s # <<>> /\ s[Len(s)] \in cs
    THEN rstrip_chars(SubSeq(s, 1, Len(s) - 1), cs)
    ELSE s

strip_chars(s, cs) == rstrip_chars(lstrip_chars(s, cs), cs)

strip(s) == strip_chars(s, Whitespace)

lower_char(c) ==
    IF \E i \in 1..26 : UpperLetters[i] = c
    THEN LowerLetters[CHOOSE i \in 1..26 : UpperLetters[i] = c]
    ELSE c

RECURSIVE lower(_)
lower(s) == IF s = <<>> THEN <<>> ELSE <<lower_char(Head(s))>> \o lower(Tail(s))

\* re.sub(r'\s+', ' ', s)
RECURSIVE collapse_whitespace(_)
collapse_whitespace(s) ==
    IF s = <<>> THEN <<>>
    ELSE IF Head(s) \in Whitespace
         THEN <<" ">> \o collapse_whitespace(lstrip_chars(s, Whitespace))
         ELSE <<Head(s)>> \o collapse_whitespace(Tail(s))

RECURSIVE skip_non_alnum(_)
skip_non_alnum(s) ==
    IF s # <<>> /\ Head(s) \notin (LowerSet \cup DigitSet)
    THEN skip_non_alnum(Tail(s))
    ELSE s

\* re.sub(r'[^a-z0-9]+', '_', s)
RECURSIVE sub_non_alnum(_)
sub_non_alnum(s) ==
    IF s = <<>> THEN <<>>
    ELSE IF Head(s) \notin (LowerSet \cup DigitSet)
         THEN <<"_">> \o sub_non_alnum(skip_non_alnum(s))
         ELSE <<Head(s)>> \o sub_non_alnum(Tail(s))

\* str.replace(old, new)
RECURSIVE replace(_, _, _)
replace(s, old, new) ==
    IF Len(s) < Len(old) THEN s
    ELSE IF SubSeq(s, 1, Len(old)) = old
         THEN new \o replace(SubSeq(s, Len(old) + 1, Len(s)), old, new)
         ELSE <<Head(s)>> \o replace(Tail(s), old, new)

\* str(counter) for counter >= 0
RECURSIVE str_int(_)
str_int(n) ==
    IF n < 10 THEN <<DigitChars[n + 1]>>
    ELSE str_int(n \div 10) \o <<DigitChars[(n % 10) + 1]>>

----------------------------------------------------------------------------
(* slugify *)

section_fallback == <<"s","e","c","t","i","o","n">>

\* prefix_underscore with the leading-digit check left out (faulty variant)
prefix_underscore_missing(s) == s

\* the last step of slugify: if not re.match(r'^[a-z_]', s): s = "_" + s
prefix_underscore(s) ==
    IF s[1] \in (LowerSet \cup {"_"}) THEN s ELSE <<"_">> \o s

slugify(h) ==
    LET s1 == strip(h)
        s2 == lstrip_chars(s1, Whitespace \cup {"#"})
        s3 == collapse_whitespace(s2)
        s4 == lower(strip(s3))
        s5 == sub_non_alnum(s4)
        s6 == strip_chars(s5, {"_"})
        s7 == IF s6 = <<>> THEN section_fallback ELSE s6
    IN  prefix_underscore(s7)

----------------------------------------------------------------------------
(* parse_markdown_sections *)

\* index of the newline ending the line that holds index i, or Len(text) + 1
RECURSIVE line_end(_, _)
line_end(text, i) ==
    IF i > Len(text) \/ text[i] = NL THEN i ELSE line_end(text, i + 1)

\* length of the run of character c in L starting at index i
RECURSIVE run_length(_, _, _)
run_length(L, i, c) ==
    IF i <= Len(L) /\ L[i] = c THEN 1 + run_length(L, i + 1, c) ELSE 0

\* heading_regex = r'^(#{1,6})\\s*(.+?)\\s*$' applied to one line L: in a raw
\* string \\s* is a literal backslash followed by any number of the letter s.
\* A match covers the whole line: 1..6 '#', a backslash, s*, group 2 (lazy,
\* non-empty), the line's last backslash, s* up to the end of the line.
heading_regex_matches(L) ==
    LET n == run_length(L, 1, "#")
    IN  /\ n >= 1
        /\ n <= 6
        /\ Len(L) >= n + 1
        /\ L[n + 1] = BS
        /\ \E p \in (n + 3)..Len(L) :
              /\ L[p] = BS
              /\ \A q \in (p + 1)..Len(L) : L[q] = "s"

\* m.group(2) of the match on line L
heading_regex_group2(L) ==
    LET n == run_length(L, 1, "#")
        p == CHOOSE q \in 1..Len(L) :
                 L[q] = BS /\ \A r \in (q + 1)..Len(L) : L[r] # BS
        J == run_length(L, n + 2, "s")
        j == IF J < p - n - 3 THEN J ELSE p - n - 3
    IN  SubSeq(L, n + 2 + j, p - 1)

\* list(heading_regex.finditer(text)) from index i on, re.MULTILINE: start and
\* end are Python offsets (0-based, end exclusive)
RECURSIVE finditer(_, _)
finditer(text, i) ==
    IF i > Len(text) THEN <<>>
    ELSE LET e == line_end(text, i)
             L == SubSeq(text, i, e - 1)
         IN  IF heading_regex_matches(L)
             THEN <<[start |-> i - 1, end |-> e - 1, line |-> L,
                     group2 |-> heading_regex_group2(L)]>>
                  \o finditer(text, e + 1)
             ELSE finditer(text, e + 1)

has_key(d, k) == \E i \in 1..Len(d) : d[i].k = k

dict_get(d, k) == d[CHOOSE i \in 1..Len(d) : d[i].k = k].v

\* d[k] = v
dict_set(d, k, v) ==
    IF has_key(d, k)
    THEN [i \in 1..Len(d) |-> IF d[i].k = k THEN [k |-> k, v |-> v] ELSE d[i]]
    ELSE Append(d, [k |-> k, v |-> v])

\* while key in sections: key = f"{base_key}_{counter}"; counter += 1
RECURSIVE unique_key(_, _, _, _)
unique_key(d, base_key, k, counter) ==
    IF has_key(d, k)
    THEN unique_key(d, base_key, base_key \o <<"_">> \o str_int(counter), counter + 1)
    ELSE k

\* section_content without .strip() (faulty variant)
section_content_unstripped(text, matches, i) ==
    LET start == matches[i].end
        end == IF i + 1 <= Len(matches) THEN matches[i + 1].start ELSE Len(text)
    IN  SubSeq(text, start + 1, end)

\* text[start:end].strip() for the i-th match
section_content(text, matches, i) ==
    LET start == matches[i].end
        end == IF i + 1 <= Len(matches) THEN matches[i + 1].start ELSE Len(text)
    IN  strip(SubSeq(text, start + 1, end))

\* the for loop over enumerate(matches), from the i-th match on
RECURSIVE add_sections(_, _, _, _)
add_sections(text, matches, i, d) ==
    IF i > Len(matches) THEN d
    ELSE LET heading_text == strip(matches[i].group2)
             base_key == slugify(heading_text)
             k == unique_key(d, base_key, base_key, 2)
         IN  add_sections(text, matches, i + 1,
                          dict_set(d, k, section_content(text, matches, i)))

\* text = md.replace('\\r\\n', '\\n').replace('\\r', '\\n'): the literals are
\* not raw strings, so they are backslash-r-backslash-n and backslash-r
normalize_newlines(s) ==
    replace(replace(s, <<BS, "r", BS, "n">>, <<BS, "n">>), <<BS, "r">>, <<BS, "n">>)

parse_markdown_sections(v) ==
    IF v.t # "str" \/ strip(v.s) = <<>> THEN <<>>
    ELSE LET text == normalize_newlines(v.s)
         IN  add_sections(text, finditer(text, 1), 1, <<>>)

----------------------------------------------------------------------------
(* Inputs of the pure functions *)

SlugAlphabet == {"#", " ", "a", "A", "1", "_", "!"}

\* every string over SlugAlphabet of at most MaxHeadingLen characters, and None
HeadingInputs ==
    {Str(h) : h \in UNION {[1..n -> SlugAlphabet] : n \in 0..MaxHeadingLen}}
        \cup {None}

line_blank == <<>>
line_body == <<"x">>
line_md_heading == <<"#", " ", "N">>
line_md_heading2 == <<"#", "#", " ", "n", "!">>
line_heading == <<"#", "\\", "N", "\\">>
line_heading2 == <<"#", "#", "\\", "s", "n", "!", "\\", "s">>
line_indented == <<" ", "#", "\\", "N", "\\">>
line_trailing == <<"#", "\\", "N", "\\", " ">>
line_suffixed == <<"#", "\\", "n", "_", "2", "\\">>
line_empty_heading == <<"#", "\\", " ", "\\">>
line_seven == <<"#", "#", "#", "#", "#", "#", "#", "\\", "N", "\\">>
line_cr == <<"#", "\\", "r", "\\", "n", "\\">>

Lines ==
    {line_blank, line_body, line_md_heading, line_md_heading2, line_heading,
     line_heading2, line_indented, line_trailing, line_suffixed,
     line_empty_heading, line_seven, line_cr}

\* "\n".join(ls)
RECURSIVE join(_)
join(ls) ==
    IF ls = <<>> THEN <<>>
    ELSE IF Len(ls) = 1 THEN ls[1]
    ELSE ls[1] \o <<NL>> \o join(Tail(ls))

\* every text of at most MaxLines lines drawn from Lines, and two non-strings
TextInputs ==
    {Str(join(ls)) : ls \in UNION {[1..n -> Lines] : n \in 0..MaxLines}}
        \cup {None, NaN}

\* no table: the file at csv_path does not exist, or self.df is None
NoFile == [columns |-> <<>>, rows |-> <<>>, exists |-> FALSE]

\* include_sections=None
NoInclude == [given |-> FALSE, hs |-> <<>>]

NoMessage == [requested |-> <<>>, available |-> <<>>]

----------------------------------------------------------------------------
(* The pure functions called on their own, each on one input *)

InitPure ==
    /\ heading = None
    /\ md = None
    /\ include_sections = NoInclude
    /\ key = <<>>
    /\ sections = <<>>
    /\ result = <<>>
    /\ records = <<>>
    /\ csv = NoFile
    /\ requested = <<>>
    /\ description_col = <<>>
    /\ df = NoFile
    /\ objects = <<>>
    /\ call = "init"
    /\ err = ""
    /\ errmsg = NoMessage

\* heading.strip() on a value that is not a str
slugify_raises(h) == h.t # "str"

Slugify ==
    /\ call = "init"
    /\ \E h \in HeadingInputs :
        /\ heading' = h
        /\ call' = "slugify"
        /\ IF slugify_raises(h)
           THEN key' = <<>> /\ err' = "AttributeError"
           ELSE key' = slugify(h.s) /\ err' = ""
        /\ md' = None
        /\ sections' = <<>>
        /\ UNCHANGED <<include_sections, result, records, csv, requested,
                       description_col, df, objects, errmsg>>

ParseMarkdownSections ==
    /\ call = "init"
    /\ \E t \in TextInputs :
        /\ md' = t
        /\ call' = "parse_markdown_sections"
        /\ sections' = parse_markdown_sections(t)
        /\ err' = ""
        /\ heading' = None
        /\ key' = <<>>
        /\ UNCHANGED <<include_sections, result, records, csv, requested,
                       description_col, df, objects, errmsg>>

NextPure == Slugify \/ ParseMarkdownSections

SpecPure == InitPure /\ [][NextPure]_vars

----------------------------------------------------------------------------
(* DescriptionObject: an instance is its __dict__, attribute name -> value *)

attr_source_index == <<"s", "o", "u", "r", "c", "e", "_", "i", "n", "d", "e", "x">>
attr_raw_description == <<"r", "a", "w", "_", "d", "e", "s", "c", "r", "i", "p", "t", "i", "o", "n">>
attr_sections == <<"s", "e", "c", "t", "i", "o", "n", "s">>

hasattr(o, name) == has_key(o, name)

getattr(o, name) == dict_get(o, name)

\* __post_init__: for k, v in self.sections.items(): setattr(self, k, v)
RECURSIVE post_init(_, _)
post_init(o, items) ==
    IF items = <<>> THEN o
    ELSE post_init(dict_set(o, Head(items).k, Str(Head(items).v)), Tail(items))

DescriptionObject(source_index, raw_description, secs) ==
    post_init(<<[k |-> attr_source_index, v |-> PyInt(source_index)],
                [k |-> attr_raw_description, v |-> raw_description],
                [k |-> attr_sections, v |-> Dict(secs)]>>,
              secs)

----------------------------------------------------------------------------
(* InterfaceIssueParser.load and build_objects *)

col_description == <<"d", "e", "s", "c", "r", "i", "p", "t", "i", "o", "n">>
col_Description == <<"D", "e", "s", "c", "r", "i", "p", "t", "i", "o", "n">>
col_DESCRIPTION == <<"D", "E", "S", "C", "R", "I", "P", "T", "I", "O", "N">>
col_id == <<"i", "d">>

\* row.get(col, ""): every description column of the file holds the row's
\* text, every other column the row number
row_get(table, i, col) ==
    IF \E c \in 1..Len(table.columns) : table.columns[c] = col
    THEN IF lower(col) = col_description THEN table.rows[i] ELSE PyInt(i - 1)
    ELSE Str(<<>>)

\* resolve_column looking the requested name up in lower_map without
\* .lower() (faulty variant)
resolve_column_request_not_lowered(columns, col) ==
    IF \E c \in 1..Len(columns) : columns[c] = col
    THEN [col |-> col, err |-> "", errmsg |-> NoMessage]
    ELSE IF \E c \in 1..Len(columns) : lower(columns[c]) = col
         THEN [col |-> columns[CHOOSE c \in 1..Len(columns) :
                          /\ lower(columns[c]) = col
                          /\ \A c2 \in (c + 1)..Len(columns) : lower(columns[c2]) # col],
               err |-> "", errmsg |-> NoMessage]
         ELSE [col |-> col, err |-> "KeyError",
               errmsg |-> [requested |-> col, available |-> columns]]

\* the column check of load: exact name, else lower_map (built in column
\* order, so the last column of a lowercase name wins), else KeyError
resolve_column(columns, col) ==
    IF \E c \in 1..Len(columns) : columns[c] = col
    THEN [col |-> col, err |-> "", errmsg |-> NoMessage]
    ELSE IF \E c \in 1..Len(columns) : lower(columns[c]) = lower(col)
         THEN [col |-> columns[CHOOSE c \in 1..Len(columns) :
                          /\ lower(columns[c]) = lower(col)
                          /\ \A c2 \in (c + 1)..Len(columns) :
                                lower(columns[c2]) # lower(col)],
               err |-> "", errmsg |-> NoMessage]
         ELSE [col |-> col, err |-> "KeyError",
               errmsg |-> [requested |-> col, available |-> columns]]

\* load(): what it leaves in self.df and self.description_col and what it raises
load(file, self_df, col) ==
    IF ~file.exists
    THEN [df |-> self_df, col |-> col, err |-> "FileNotFoundError", errmsg |-> NoMessage]
    ELSE LET r == resolve_column(file.columns, col)
         IN  [df |-> file, col |-> r.col, err |-> r.err, errmsg |-> r.errmsg]

\* the loop of build_objects over self.df.iterrows()
build_objects(table, col) ==
    [i \in 1..Len(table.rows) |->
        LET desc == row_get(table, i, col)
        IN  DescriptionObject(i - 1, desc, parse_markdown_sections(desc))]

----------------------------------------------------------------------------
(* get_by_section_presence and to_dataframe *)

\* getattr(o, key).strip() on an attribute that is not a str
get_by_section_presence_raises(objs, k) ==
    \E i \in 1..Len(objs) : hasattr(objs[i], k) /\ getattr(objs[i], k).t # "str"

get_by_section_presence(objs, k) ==
    SelectSeq(objs, LAMBDA o : hasattr(o, k) /\ strip(getattr(o, k).s) # <<>>)

\* for h in include_sections: k = slugify(h); row[k] = getattr(o, k, "")
RECURSIVE row_include(_, _, _)
row_include(row, o, hs) ==
    IF hs = <<>> THEN row
    ELSE LET k == slugify(Head(hs))
         IN  row_include(dict_set(row, k, IF hasattr(o, k) THEN getattr(o, k) ELSE Str(<<>>)),
                         o, Tail(hs))

\* for k, v in o.sections.items(): row[k] = v
RECURSIVE row_all(_, _)
row_all(row, items) ==
    IF items = <<>> THEN row
    ELSE row_all(dict_set(row, Head(items).k, Str(Head(items).v)), Tail(items))

\* if include_sections: a None and an empty list both take the else branch
include_is_truthy(inc) == inc.given /\ inc.hs # <<>>

\* o.sections.items() on a sections attribute that is not a dict
to_dataframe_raises(objs, inc) ==
    /\ ~include_is_truthy(inc)
    /\ \E i \in 1..Len(objs) : getattr(objs[i], attr_sections).t # "dict"

to_dataframe(objs, inc) ==
    [i \in 1..Len(objs) |->
        LET o == objs[i]
            row == <<[k |-> attr_source_index, v |-> getattr(o, attr_source_index)]>>
        IN  IF include_is_truthy(inc)
            THEN row_include(row, o, inc.hs)
            ELSE row_all(row, getattr(o, attr_sections).d)]

----------------------------------------------------------------------------
(* The parser object: files, constructor arguments and calls *)

h_notes == <<"N", "o", "t", "e", "s">>
h_sections == <<"S", "e", "c", "t", "i", "o", "n", "s">>
h_source_index == <<"S", "o", "u", "r", "c", "e", " ", "i", "n", "d", "e", "x">>
h_raw_description == <<"R", "a", "w", " ", "d", "e", "s", "c", "r", "i", "p", "t", "i", "o", "n">>

cell_notes == <<"#", "\\", "N", "o", "t", "e", "s", "\\", "\n", "x">>
cell_notes_empty == <<"#", "\\", "N", "o", "t", "e", "s", "\\">>
cell_sections == <<"#", "\\", "S", "e", "c", "t", "i", "o", "n", "s", "\\", "\n", "b">>
cell_source_index == <<"#", "\\", "S", "o", "u", "r", "c", "e", " ", "i", "n", "d", "e", "x", "\\", "\n", "7">>
cell_md == <<"#", " ", "N", "o", "t", "e", "s", "\n", "x">>

\* an empty cell is read as NaN
Cells ==
    {NaN, Str(cell_notes), Str(cell_notes_empty), Str(cell_sections),
     Str(cell_source_index), Str(cell_md)}

ColumnLists ==
    {<<col_id>>, <<col_id, col_description>>, <<col_Description, col_id>>,
     <<col_DESCRIPTION, col_Description>>}

Files ==
    {[columns |-> cs, rows |-> rs, exists |-> TRUE] :
        cs \in ColumnLists, rs \in UNION {[1..n -> Cells] : n \in 0..MaxRows}}
        \cup {NoFile}

HeadingArgs ==
    {Str(h_notes), Str(h_sections), Str(h_source_index), Str(h_raw_description), None}

IncludeArgs ==
    {NoInclude,
     [given |-> TRUE, hs |-> <<>>],
     [given |-> TRUE, hs |-> <<h_notes>>],
     [given |-> TRUE, hs |-> <<h_notes, h_sections>>]}

\* InterfaceIssueParser(csv_path, description_col) over some file
Init ==
    /\ csv \in Files
    /\ requested \in {col_description, col_Description}
    /\ description_col = requested
    /\ df = NoFile
    /\ objects = <<>>
    /\ heading = None
    /\ md = None
    /\ include_sections = NoInclude
    /\ key = <<>>
    /\ sections = <<>>
    /\ result = <<>>
    /\ records = <<>>
    /\ call = "init"
    /\ err = ""
    /\ errmsg = NoMessage

Load ==
    LET l == load(csv, df, description_col)
    IN  /\ call' = "load"
        /\ df' = l.df
        /\ description_col' = l.col
        /\ err' = l.err
        /\ errmsg' = l.errmsg
        /\ heading' = None
        /\ include_sections' = NoInclude
        /\ result' = <<>>
        /\ records' = <<>>
        /\ UNCHANGED <<md, key, sections, csv, requested, objects>>

BuildObjects ==
    LET l == IF ~df.exists
             THEN load(csv, df, description_col)
             ELSE [df |-> df, col |-> description_col, err |-> "", errmsg |-> NoMessage]
    IN  /\ call' = "build_objects"
        /\ df' = l.df
        /\ description_col' = l.col
        /\ err' = l.err
        /\ errmsg' = l.errmsg
        /\ objects' = IF l.err # "" THEN objects ELSE build_objects(l.df, l.col)
        /\ heading' = None
        /\ include_sections' = NoInclude
        /\ result' = <<>>
        /\ records' = <<>>
        /\ UNCHANGED <<md, key, sections, csv, requested>>

GetBySectionPresence ==
    \E h \in HeadingArgs :
        /\ call' = "get_by_section_presence"
        /\ heading' = h
        /\ IF slugify_raises(h)
           THEN err' = "AttributeError" /\ result' = <<>>
           ELSE IF get_by_section_presence_raises(objects, slugify(h.s))
                THEN err' = "AttributeError" /\ result' = <<>>
                ELSE err' = "" /\ result' = get_by_section_presence(objects, slugify(h.s))
        /\ errmsg' = NoMessage
        /\ include_sections' = NoInclude
        /\ records' = <<>>
        /\ UNCHANGED <<md, key, sections, csv, requested, description_col, df, objects>>

ToDataframe ==
    \E inc \in IncludeArgs :
        /\ call' = "to_dataframe"
        /\ include_sections' = inc
        /\ IF to_dataframe_raises(objects, inc)
           THEN err' = "AttributeError" /\ records' = <<>>
           ELSE err' = "" /\ records' = to_dataframe(objects, inc)
        /\ errmsg' = NoMessage
        /\ heading' = None
        /\ result' = <<>>
        /\ UNCHANGED <<md, key, sections, csv, requested, description_col, df, objects>>

Next == Load \/ BuildObjects \/ GetBySectionPresence \/ ToDataframe

Spec == Init /\ [][Next]_vars

----------------------------------------------------------------------------
(* Claims about slugify and parse_markdown_sections, checked under SpecPure *)

\* text.split("\n")
RECURSIVE split_lines(_)
split_lines(s) ==
    LET e == line_end(s, 1)
    IN  IF e > Len(s) THEN <<s>>
        ELSE <<SubSeq(s, 1, e - 1)>> \o split_lines(SubSeq(s, e + 1, Len(s)))

\* a heading line as the specification words it: 1 to 6 '#' characters
\* followed by heading text
markdown_heading(L) ==
    LET n == run_length(L, 1, "#")
    IN  n >= 1 /\ n <= 6 /\ strip(SubSeq(L, n + 1, Len(L))) # <<>>

markdown_heading_text(L) == strip(SubSeq(L, run_length(L, 1, "#") + 1, Len(L)))

\* the headings of the lines ls in document order, each with the text that
\* follows its line up to the next heading line
RECURSIVE claimed_entries(_, _)
claimed_entries(ls, acc) ==
    IF ls = <<>> THEN acc
    ELSE IF markdown_heading(Head(ls))
         THEN claimed_entries(Tail(ls),
                  Append(acc, [h |-> markdown_heading_text(Head(ls)), body |-> <<>>]))
         ELSE IF acc = <<>> THEN claimed_entries(Tail(ls), acc)
         ELSE claimed_entries(Tail(ls),
                  [acc EXCEPT ![Len(acc)].body = @ \o <<NL>> \o Head(ls)])

ValidKey(k) ==
    /\ k # <<>>
    /\ k[1] \in (LowerSet \cup {"_"})
    /\ \A i \in 1..Len(k) : k[i] \in (LowerSet \cup DigitSet \cup {"_"})

\* C1: for every text, parse_markdown_sections returns one entry per line that
\* starts with 1 to 6 '#' followed by heading text, in document order, keyed
\* by slugify(heading text) (for the first heading of that key), whose body is
\* the trimmed text between that heading line and the next heading line.
C1_SplitsAtEveryHeadingLine ==
    (call = "parse_markdown_sections" /\ md.t = "str") =>
        LET es == claimed_entries(split_lines(md.s), <<>>)
        IN  /\ Len(sections) = Len(es)
            /\ \A i \in 1..Len(es) :
                  /\ sections[i].v = strip(es[i].body)
                  /\ (\A j \in 1..(i - 1) : slugify(es[j].h) # slugify(es[i].h))
                        => sections[i].k = slugify(es[i].h)

\* C2: slugify of any string is non-empty, made of lowercase letters, digits
\* and underscore, and starts with a lowercase letter or underscore; so is
\* every key of every map parse_markdown_sections returns.
C2_KeysWellFormed ==
    /\ (call = "slugify" /\ heading.t = "str") => (err = "" /\ ValidKey(key))
    /\ call = "parse_markdown_sections" =>
          \A i \in 1..Len(sections) : ValidKey(sections[i].k)

\* slugify was called on a string that starts with a digit and prefixed it
C2_Witness ==
    /\ call = "slugify"
    /\ heading = Str(<<"1", "A", " ", "!">>)
    /\ key = <<"_", "1", "a">>

\* C3: the map has as many entries as the text has heading lines, no two
\* under one key, and of two headings that normalize to the same key the
\* second is stored under <key>_2.
C3_CollidingHeadingsKeptApart ==
    (call = "parse_markdown_sections" /\ md.t = "str") =>
        LET es == claimed_entries(split_lines(md.s), <<>>)
        IN  /\ \A i, j \in 1..Len(sections) :
                  i # j => sections[i].k # sections[j].k
            /\ (Len(es) = 2 /\ slugify(es[1].h) = slugify(es[2].h)) =>
                  /\ Len(sections) = 2
                  /\ sections[1].k = slugify(es[1].h)
                  /\ sections[2].k = slugify(es[1].h) \o <<"_", "2">>

\* the lines of text on which heading_regex matches, as they stand in text
detected_heading_lines(text) ==
    SelectSeq(split_lines(text), LAMBDA L : heading_regex_matches(normalize_newlines(L)))

\* each entry of d written as its heading line, a newline and its body, every
\* entry starting on a new line
RECURSIVE rewrite(_, _)
rewrite(hs, d) ==
    IF d = <<>> THEN <<>>
    ELSE Head(hs) \o <<NL>> \o Head(d).v
         \o (IF Len(d) > 1 THEN <<NL>> ELSE <<>>) \o rewrite(Tail(hs), Tail(d))

resplit(text, d) ==
    parse_markdown_sections(Str(rewrite(detected_heading_lines(text), d)))

\* C9 as stated: for every text, writing the headings back with the returned
\* bodies and splitting again yields the same map.
C9_ResplitIdempotent ==
    (call = "parse_markdown_sections" /\ md.t = "str") =>
        resplit(md.s, sections) = sections

\* C9 amended: the same, for every text none of whose returned (trimmed)
\* bodies holds a line the splitter detects as a heading.
C9_ResplitIdempotentWhenBodiesHoldNoHeading ==
    ( /\ call = "parse_markdown_sections"
      /\ md.t = "str"
      /\ \A i \in 1..Len(sections) : finditer(normalize_newlines(sections[i].v), 1) = <<>> )
    => resplit(md.s, sections) = sections

\* a text with two colliding headings and a body was split and split again
C9_Witness ==
    /\ call = "parse_markdown_sections"
    /\ md = Str(join(<<line_heading, line_body, line_heading2>>))
    /\ sections = <<[k |-> <<"n">>, v |-> <<"x">>], [k |-> <<"n", "_", "2">>, v |-> <<>>]>>
    /\ resplit(md.s, sections) = sections

----------------------------------------------------------------------------
(* Claims about the parser object, checked under Spec *)

\* the Section Map of the i-th row of the loaded table
row_sections(i) == parse_markdown_sections(row_get(df, i, description_col))

keys_of(d) == {d[i].k : i \in 1..Len(d)}

\* C4: a record built from (i, raw_text, s) keeps source_index = i,
\* raw_description = raw_text and sections = s, exposes s[k] under every key k
\* of s, and has no other field besides its three declared ones.
C4_RecordMirrorsItsSectionMap ==
    \A i \in 1..Len(objects) :
        LET o == objects[i]
            s == row_sections(i)
        IN  /\ getattr(o, attr_source_index) = PyInt(i - 1)
            /\ getattr(o, attr_raw_description) = row_get(df, i, description_col)
            /\ getattr(o, attr_sections) = Dict(s)
            /\ \A j \in 1..Len(s) : getattr(o, s[j].k) = Str(s[j].v)
            /\ keys_of(o) \ {attr_source_index, attr_raw_description, attr_sections}
                  = keys_of(s)

\* the records, in order, whose Section Map has key k with a non-empty body
RECURSIVE records_with_section(_, _)
records_with_section(i, k) ==
    IF i > Len(objects) THEN <<>>
    ELSE (IF has_key(row_sections(i), k) /\ strip(dict_get(row_sections(i), k)) # <<>>
          THEN <<objects[i]>> ELSE <<>>)
         \o records_with_section(i + 1, k)

\* C5: get_by_section_presence(h) returns, in order, exactly the records whose
\* sections map has the key slugify(h) with a non-empty body.
C5_FilterReturnsRecordsWithSection ==
    (call = "get_by_section_presence" /\ heading.t = "str" /\ err = "") =>
        result = records_with_section(1, slugify(heading.s))

\* C6: slugify, parse_markdown_sections, get_by_section_presence and
\* to_dataframe never raise, whatever the heading text and the records (stated
\* here for heading text that is a string).
C6_QueriesNeverRaise ==
    ( /\ call \in {"slugify", "parse_markdown_sections", "get_by_section_presence",
                   "to_dataframe"}
      /\ call \in {"slugify", "get_by_section_presence"} => heading.t = "str" )
    => err = ""

\* the row the claim describes for the i-th record: source_index, then one
\* column per key of ks holding the section body, or "" when there is none
claimed_row(i, ks) ==
    [k \in {attr_source_index} \cup ks |->
        IF k = attr_source_index THEN PyInt(i - 1)
        ELSE IF has_key(row_sections(i), k)
             THEN Str(dict_get(row_sections(i), k))
             ELSE Str(<<>>)]

row_as_function(row) == [k \in keys_of(row) |-> dict_get(row, k)]

\* C7: to_dataframe emits one row per record, in order: source_index plus one
\* column per requested heading (whatever the length of the list) holding the
\* section body or "", or plus one column per section key when
\* include_sections is omitted.
C7_ExportsRequestedColumns ==
    (call = "to_dataframe" /\ err = "") =>
        /\ Len(records) = Len(objects)
        /\ \A i \in 1..Len(records) :
              row_as_function(records[i]) =
                  claimed_row(i, IF include_sections.given
                                 THEN {slugify(include_sections.hs[j]) :
                                          j \in 1..Len(include_sections.hs)}
                                 ELSE keys_of(row_sections(i)))

\* C8: load keeps an exact column name, else takes a column that equals the
\* requested name ignoring case, else raises KeyError naming the requested
\* column and every available column.
C8_LoadResolvesColumn ==
    (call = "load" /\ csv.exists) =>
        LET cols == {csv.columns[c] : c \in 1..Len(csv.columns)}
        IN  IF requested \in cols
            THEN err = "" /\ description_col = requested
            ELSE IF \E c \in cols : lower(c) = lower(requested)
                 THEN /\ err = ""
                      /\ description_col \in cols
                      /\ lower(description_col) = lower(requested)
                 ELSE /\ err = "KeyError"
                      /\ description_col = requested
                      /\ errmsg = [requested |-> requested, available |-> csv.columns]

\* 'Description' was requested and load resolved it to the column 'description'
C8_Witness ==
    /\ call = "load"
    /\ err = ""
    /\ requested = col_Description
    /\ csv.columns = <<col_id, col_description>>
    /\ description_col = col_description

\* C10: build_objects produces records only from a table whose description
\* column was resolved; after a failed load it raises again instead of
\* returning with records built.
C10_BuildsOnlyFromResolvedTable ==
    (call = "build_objects" /\ err = "" /\ objects # <<>>) =>
        \E c \in 1..Len(df.columns) : df.columns[c] = description_col

====
